---------------------------- MODULE Spec2Model ----------------------------
(***************************************************************************)
(* Document conversion and rasterization pipeline of papermark.            *)
(*                                                                         *)
(* The Metadata Store holds the DocumentVersion rows of one Document and   *)
(* its DocumentPage rows.  Rasterization runs (convertPdfToImage) are      *)
(* asynchronous tasks; every await that reads or writes the Metadata Store *)
(* is one step of a run, so that runs interleave exactly where the code    *)
(* yields.                                                                 *)
(***************************************************************************)
EXTENDS Integers, Sequences, FiniteSets, TLC

\* ------------------------------------------------------------------ bounds
MaxVersions == 2      \* DocumentVersion rows of the Document at the start
MaxPages == 2         \* pages of a PDF

\* the ids of the rows the Document may hold at the start
UploadedIds == 1..MaxVersions

\* the ids of DocumentVersion rows: the rows at the start and the rows the
\* version handler creates after them
VersionIds == 1..(MaxVersions + 1)
PageNumbers == 1..MaxPages

\* The task pools: two rasterization runs may be in flight together (one of
\* them may be the run a converter chains into), one conversion task, and
\* two version-creation requests.
Runs == {1, 2}
Converters == {1}
Requests == {1, 2}

\* ------------------------------------------------------------ page render
\* Inputs of one page render: the page's bounding box in points and the byte
\* sizes of the two candidate encodings of its pixmap.
Renders ==
    { [w |-> 1600, h |-> 1000, png |-> 10, jpeg |-> 10, links |-> 0],
      [w |-> 1599, h |-> 2000, png |-> 9,  jpeg |-> 10, links |-> 1] }

\* page bounds and encodings of more shapes: a width shared by two heights,
\* a square page, and each order of the two encodings' sizes
PageRenders ==
    Renders \cup
    { [w |-> 1600, h |-> 2000, png |-> 11, jpeg |-> 10, links |-> 0],
      [w |-> 1599, h |-> 1000, png |-> 10, jpeg |-> 9,  links |-> 0],
      [w |-> 1601, h |-> 1601, png |-> 9,  jpeg |-> 10, links |-> 1] }

\* an orientation taken from the wider side
IsVertical_Wide(rd) == rd.w > rd.h

\* pdf-utils.ts:74
IsVertical(rd) == rd.h > rd.w

\* a scale factor of 2 only above 1600 points
ScaleFactor_Above(rd) == IF rd.w > 1600 THEN 2 ELSE 3

\* pdf-utils.ts:83
ScaleFactor(rd) == IF rd.w >= 1600 THEN 2 ELSE 3

\* pdf-utils.ts:117-125
ChosenFormat(rd) == IF rd.png < rd.jpeg THEN "png" ELSE "jpeg"

\* pdf-utils.ts:94-100
Metadata(rd) ==
    [ originalWidth |-> rd.w, originalHeight |-> rd.h,
      width |-> rd.w * ScaleFactor(rd), height |-> rd.h * ScaleFactor(rd),
      scaleFactor |-> ScaleFactor(rd) ]

\* put-file-server.ts:47 : the key of page-<n>.<format> under the document
PageKey(n, rd) == [page |-> n, format |-> ChosenFormat(rd)]

\* the keys page images are stored at: {teamId}/{docId}/page-<n>.<format>,
\* docId being the doc_ segment of the version's file url (pdf-utils.ts:132);
\* the versions of the Document keep their files under the Document's id
PageKeys == [page : PageNumbers, format : {"png", "jpeg"}]

\* no object at a key
NoObject == 0

\* a put that leaves an object already stored at the key as it is
PutObject_KeepFirst(st, key, v) ==
    IF st[key] = NoObject THEN [st EXCEPT ![key] = v] ELSE st

\* PutObjectCommand, put-file-server.ts:48-56: the object at the key now
\* holds the bytes rendered from version v's file
PutObject(st, key, v) == [st EXCEPT ![key] = v]

\* Math.round((currentPage / numPages) * 100), pdf-to-image.ts:133
RoundPercent(cur, n) == (200 * cur + n) \div (2 * n)


\* ------------------------------------------------------------------- state
VARIABLES
    versions,   \* DocumentVersion rows, by id
    pages,      \* DocumentPage rows
    runs,       \* rasterization runs, by task
    convs,      \* Office/CAD conversion tasks
    reqs,       \* version-creation requests being handled
    vids,       \* video optimization tasks
    now,        \* Date.now() of the host
    tmpfs,      \* the directories under os.tmpdir()
    sched,      \* the tasks handed to scheduleTask
    callbackProperty,  \* (convertPdfToImage as any).progressCallback is set
    storage,    \* the page images in the bucket, by key
    limiter,    \* the rate limiter of one identifier and its Redis key
    bucket,     \* the keys under the team's prefix in the bucket
    deletion    \* the deleteTeamFilesServer call

\* the rate limiter and the team's files
infra == <<limiter, bucket, deletion>>

\* the host state the pipeline's Metadata Store operations leave alone
env == <<now, sched, callbackProperty, storage, infra>>

\* the state of the conversion pipeline
pipeline ==
    <<versions, pages, runs, convs, reqs, vids, now, tmpfs, sched,
      callbackProperty, storage>>

vars == <<versions, pages, runs, convs, reqs, vids, tmpfs, env>>

DefaultRender == [w |-> 1600, h |-> 1000, png |-> 10, jpeg |-> 10, links |-> 0]

\* A DocumentVersion row.  length is the media duration (0: not set).
\* pdfPages is not a column: it is the page count of the PDF the row's file
\* holds (0: a file mupdf cannot count pages of).
NoVersion ==
    [ exists |-> FALSE, type |-> "pdf", file |-> "upload",
      storageType |-> "S3_PATH", numPages |-> 0, hasPages |-> FALSE,
      isPrimary |-> FALSE, versionNumber |-> 0, isVertical |-> FALSE,
      length |-> 0, pdfPages |-> 0 ]

\* whether mupdf can open the version's current file as a PDF: an upload
\* declared pdf, or the output of a converter (which sets type to pdf)
IsPdf(ver) == ver.type = "pdf"

\* the numPages the upload client sends: the PDF's page count, 1 for any
\* other file, part_004:93-98
UploadNumPages(type, pdfPages) == IF type = "pdf" THEN pdfPages ELSE 1

\* prisma.documentVersion.create of the version handler
NewVersion(type, storageType, numPages, versionNumber, pdfPages) ==
    [ exists |-> TRUE, type |-> type, file |-> "upload",
      storageType |-> storageType, numPages |-> numPages, hasPages |-> FALSE,
      isPrimary |-> TRUE, versionNumber |-> versionNumber,
      isVertical |-> FALSE, length |-> 0, pdfPages |-> pdfPages ]

IdleRun ==
    [ pc |-> "idle", documentVersionId |-> 1, versionNumber |-> 0,
      numPages |-> 0, currentPage |-> 0, conversionWithoutError |-> TRUE,
      progress |-> <<>>, result |-> "none", render |-> DefaultRender,
      documentPageId |-> 0, existed |-> FALSE,
      progressCallback |-> FALSE, delivered |-> <<>>, probed |-> FALSE ]

\* ---------------------------------------------------------- Metadata Store
\* prisma.documentPage.findUnique({pageNumber_versionId})
FindPage(ps, v, n) == { p \in ps : p.versionId = v /\ p.pageNumber = n }

\* a store without the uniqueness constraint
UniqueViolation_None(ps, row) == FALSE

\* a store whose constraint is on versionId alone
UniqueViolation_Version(ps, row) == \E p \in ps : p.versionId = row.versionId

\* The store's uniqueness constraint on (pageNumber, versionId): a create of
\* a second row for the key is rejected.
UniqueViolation(ps, row) ==
    \E p \in ps : p.versionId = row.versionId /\ p.pageNumber = row.pageNumber

\* the row prisma.documentPage.create inserts, pdf-utils.ts:171-180
PageRow(ps, v, n, rd) ==
    [ id |-> Cardinality(ps) + 1, versionId |-> v, pageNumber |-> n,
      file |-> PageKey(n, rd), storageType |-> "S3_PATH",
      pageLinks |-> rd.links, metadata |-> Metadata(rd) ]

\* prisma.documentVersion.updateMany({versionNumber: {not: vn}}, isPrimary false)
DemoteOthers(vs, vn) ==
    [ v \in VersionIds |->
        IF vs[v].exists /\ vs[v].versionNumber # vn
        THEN [vs[v] EXCEPT !.isPrimary = FALSE]
        ELSE vs[v] ]


\* -------------------------------------------------------------- Rasterizer
\* updateProgress of convertPdfToImage, pdf-to-image.ts:24-29: the update is
\* logged, and passed on when the local progressCallback is set.  progress
\* is what the run has emitted, delivered what the callback has received.
updateProgress(run, pct) ==
    [run EXCEPT !.progress = Append(@, pct),
                !.delivered = IF run.progressCallback THEN Append(@, pct) ELSE @]

\* setProgressCallback(callback), pdf-to-image.ts:200-205: the callback is
\* stored as a property of the function object
setProgressCallback ==
    /\ callbackProperty' = TRUE
    /\ UNCHANGED <<versions, pages, runs, convs, reqs, vids, tmpfs, now, sched,
                 storage, infra>>

\* PageFailed without the early return of pdf-to-image.ts:138-145
PageFailed_NoReturn(run) ==
    LET pct == RoundPercent(run.currentPage, run.numPages)
        failed == [run EXCEPT !.conversionWithoutError = FALSE]
    IN  [updateProgress(failed, pct) EXCEPT !.pc = "promote"]

\* PageFailed without the break of pdf-to-image.ts:100-102
PageFailed_NoBreak(run) ==
    LET pct == RoundPercent(run.currentPage, run.numPages)
        failed == [run EXCEPT !.conversionWithoutError = FALSE]
    IN  IF run.currentPage < run.numPages
        THEN [updateProgress(failed, pct) EXCEPT !.pc = "page"]
        ELSE [updateProgress(updateProgress(failed, pct), pct)
                EXCEPT !.result = "undefined", !.pc = "done"]

\* the catch of the page loop, the progress update after it, the break and
\* the early return, pdf-to-image.ts:123-145
PageFailed(run) ==
    LET pct == RoundPercent(run.currentPage, run.numPages)
        failed == [run EXCEPT !.conversionWithoutError = FALSE]
    IN  [updateProgress(updateProgress(failed, pct), pct)
            EXCEPT !.result = "undefined", !.pc = "done"]

\* convertPdfPageToImage returned an id: the progress update of the loop and
\* the loop condition, pdf-to-image.ts:99-136
PageDone(run, id, existed) ==
    LET pct == RoundPercent(run.currentPage, run.numPages)
        next == [updateProgress(run, pct)
                    EXCEPT !.documentPageId = id, !.existed = existed,
                           !.render = DefaultRender]
    IN  [next EXCEPT !.pc = IF run.currentPage < run.numPages
                            THEN "page" ELSE "promote"]

\* The state of a run when convertPdfToImage yields at its first await,
\* pdf-to-image.ts:16-34.  versionNumber 0: the payload carries none.
StartedRun(v, vn) ==
    [updateProgress(IdleRun, 0) EXCEPT
        !.pc = "findVersion", !.documentVersionId = v, !.versionNumber = vn]

\* the task slot a new run takes
FreeRun(r) == runs[r].pc = "idle" /\ \A q \in Runs : q < r => runs[q].pc # "idle"

\* An invocation of convertPdfToImage for version v with the payload the
\* dispatcher builds (the version's versionNumber), pdf-to-image.ts:337-342
convertPdfToImage(r, v) ==
    /\ FreeRun(r)
    /\ runs' = [runs EXCEPT ![r] = StartedRun(v, versions[v].versionNumber)]
    /\ UNCHANGED <<versions, pages, convs, reqs, vids, tmpfs, env>>

\* the stored page count that makes the run probe the PDF,
\* pdf-to-image.ts:72
NeedsProbe(numPages) == numPages = 0 \/ numPages = 1

\* Steps 1-3: read the version, get the signed url, probe the page count,
\* pdf-to-image.ts:33-94.  getFile answers "url", "none" or "throw"; the
\* probe (getPdfPageCount, pdf-utils.ts:13-35) answers the PDF's page count
\* or throws.  probed: the run has called the probe.
RFindVersion(r) ==
    LET run == runs[r]
        ver == versions[run.documentVersionId]
        asked == [run EXCEPT !.probed = TRUE]
    IN  /\ run.pc = "findVersion"
        /\ UNCHANGED <<versions, pages, convs, reqs, vids, tmpfs, env>>
        /\ \/ /\ ~ver.exists
              /\ runs' = [runs EXCEPT ![r] =
                   [updateProgress(run, 0) EXCEPT !.result = "undefined", !.pc = "done"]]
           \/ \* getFile throws
              /\ ver.exists
              /\ runs' = [runs EXCEPT ![r] =
                   [updateProgress(run, 10) EXCEPT !.result = "thrown", !.pc = "done"]]
           \/ /\ ver.exists
              /\ runs' = [runs EXCEPT ![r] =
                   [updateProgress(updateProgress(run, 10), 0)
                      EXCEPT !.result = "undefined", !.pc = "done"]]
           \/ \* the probe throws: "Failed to get number of pages"
              /\ ver.exists
              /\ NeedsProbe(ver.numPages)
              /\ runs' = [runs EXCEPT ![r] =
                   [updateProgress(asked, 10) EXCEPT !.result = "thrown", !.pc = "done"]]
           \/ /\ ver.exists
              /\ NeedsProbe(ver.numPages)
              /\ IsPdf(ver)
              /\ ver.pdfPages < 1
              /\ runs' = [runs EXCEPT ![r] =
                   [updateProgress(updateProgress(asked, 10), 0)
                      EXCEPT !.result = "undefined", !.pc = "done"]]
           \/ /\ ver.exists
              /\ NeedsProbe(ver.numPages)
              /\ IsPdf(ver)
              /\ ver.pdfPages >= 1
              /\ runs' = [runs EXCEPT ![r] =
                   [updateProgress(updateProgress(asked, 10), 20)
                      EXCEPT !.numPages = ver.pdfPages, !.pc = "page"]]
           \/ /\ ver.exists
              /\ ~NeedsProbe(ver.numPages)
              /\ runs' = [runs EXCEPT ![r] =
                   [updateProgress(updateProgress(run, 10), 20)
                      EXCEPT !.numPages = ver.numPages, !.pc = "page"]]

\* an orientation written for every page
WritesOrientation_EveryPage(n) == TRUE

\* the page whose bounds give the Version's orientation, pdf-utils.ts:72
WritesOrientation(n) == n = 1

\* convertPdfPageToImage up to the upload of the image, pdf-utils.ts:53-155:
\* load the page, write the orientation for page 1, render, put the file.
\* rds: the renders the pages of the PDF may have.
RenderPage(r, rds) ==
    LET run == runs[r]
        v == run.documentVersionId
        n == run.currentPage + 1
        at == [run EXCEPT !.currentPage = n]
    IN  /\ run.pc = "page"
        /\ UNCHANGED <<pages, convs, reqs, vids, tmpfs, now, sched,
                       callbackProperty, infra>>
        /\ \/ \* fetch or loadPage throws
              /\ runs' = [runs EXCEPT ![r] = PageFailed(at)]
              /\ UNCHANGED <<versions, storage>>
           \/ /\ IsPdf(versions[v])
              /\ n <= versions[v].pdfPages
              /\ \E rd \in rds :
                   /\ versions' = IF WritesOrientation(n)
                        THEN [versions EXCEPT ![v].isVertical = IsVertical(rd)]
                        ELSE versions
                   /\ \/ \* the image is stored, pdf-utils.ts:136-144
                         /\ storage' = PutObject(storage, PageKey(n, rd), v)
                         /\ runs' = [runs EXCEPT ![r] =
                                       [at EXCEPT !.render = rd, !.pc = "findPage"]]
                      \/ \* toPixmap or putFileServer throws
                         /\ runs' = [runs EXCEPT ![r] = PageFailed(at)]
                         /\ UNCHANGED storage

RLoadPage(r) == RenderPage(r, Renders)

\* RFindPage as an upsert: the existing row takes the new render
RFindPage_Upsert(r) ==
    LET run == runs[r]
        found == FindPage(pages, run.documentVersionId, run.currentPage)
    IN  /\ run.pc = "findPage"
        /\ UNCHANGED <<versions, convs, reqs, vids, tmpfs, env>>
        /\ \/ /\ found = {}
              /\ pages' = pages
              /\ runs' = [runs EXCEPT ![r].pc = "createPage"]
           \/ /\ found # {}
              /\ \E p \in found :
                   /\ pages' = (pages \ {p}) \cup
                        {[p EXCEPT !.file = PageKey(run.currentPage, run.render),
                                   !.pageLinks = run.render.links,
                                   !.metadata = Metadata(run.render)]}
                   /\ runs' = [runs EXCEPT ![r] = PageDone(run, p.id, TRUE)]

\* the lookup of the existing row, pdf-utils.ts:157-167 and 181-185
RFindPage(r) ==
    LET run == runs[r]
        found == FindPage(pages, run.documentVersionId, run.currentPage)
    IN  /\ run.pc = "findPage"
        /\ UNCHANGED <<versions, pages, convs, reqs, vids, tmpfs, env>>
        /\ \/ /\ found = {}
              /\ runs' = [runs EXCEPT ![r].pc = "createPage"]
           \/ /\ found # {}
              /\ \E p \in found :
                   runs' = [runs EXCEPT ![r] = PageDone(run, p.id, TRUE)]

\* prisma.documentPage.create, pdf-utils.ts:169-180
RCreatePage(r) ==
    LET run == runs[r]
        v == run.documentVersionId
        n == run.currentPage
        row == PageRow(pages, v, n, run.render)
    IN  /\ run.pc = "createPage"
        /\ UNCHANGED <<versions, convs, reqs, vids, tmpfs, env>>
        /\ \/ /\ ~UniqueViolation(pages, row)
              /\ pages' = pages \cup {row}
              /\ runs' = [runs EXCEPT ![r] = PageDone(run, row.id, FALSE)]
           \/ /\ UniqueViolation(pages, row)
              /\ pages' = pages
              /\ runs' = [runs EXCEPT ![r] = PageFailed(run)]

\* step 5, pdf-to-image.ts:147-160 (and 177-178 when no versionNumber)
RPromote(r) ==
    LET run == runs[r]
        v == run.documentVersionId
        p90 == updateProgress(run, 90)
    IN  /\ run.pc = "promote"
        /\ versions' = [versions EXCEPT ![v].numPages = run.numPages,
                                        ![v].hasPages = TRUE,
                                        ![v].isPrimary = TRUE]
        /\ runs' = [runs EXCEPT ![r] =
                      IF run.versionNumber # 0
                      THEN [p90 EXCEPT !.pc = "demote"]
                      ELSE [updateProgress(p90, 95) EXCEPT !.pc = "revalidate"]]
        /\ UNCHANGED <<pages, convs, reqs, vids, tmpfs, env>>

\* pdf-to-image.ts:162-178
RDemote(r) ==
    LET run == runs[r]
    IN  /\ run.pc = "demote"
        /\ versions' = DemoteOthers(versions, run.versionNumber)
        /\ runs' = [runs EXCEPT ![r] =
                      [updateProgress(run, 95) EXCEPT !.pc = "revalidate"]]
        /\ UNCHANGED <<pages, convs, reqs, vids, tmpfs, env>>

\* the revalidation fetch and the return, pdf-to-image.ts:180-197
RRevalidate(r) ==
    LET run == runs[r]
    IN  /\ run.pc = "revalidate"
        /\ UNCHANGED <<versions, pages, convs, reqs, vids, tmpfs, env>>
        /\ \/ runs' = [runs EXCEPT ![r] =
                 [updateProgress(run, 100) EXCEPT !.result = "success", !.pc = "done"]]
           \/ runs' = [runs EXCEPT ![r] =
                 [run EXCEPT !.result = "thrown", !.pc = "done"]]

\* ------------------------------------------------ temporary directories
\* the values Date.now() takes while the tasks start
Times == {1, 2}

\* path.join(os.tmpdir(), `video_${Date.now()}`) and
\* path.join(os.tmpdir(), `office_conversion_${Date.now()}`)
TempDirs == {"video", "office_conversion"} \X Times

\* a directory: whether it exists, and the task whose download wrote the
\* input file in it (0: no input file)
NoDir == [exists |-> FALSE, input |-> 0]

\* fs.mkdir(dir, {recursive: true}): an existing directory is kept as it is
Mkdir(fs, dir) == [fs EXCEPT ![dir].exists = TRUE]

\* the download written to the input file of the directory by task t
WriteInput(fs, dir, t) == [fs EXCEPT ![dir].input = t]

\* fs.rm(dir, {recursive: true})
Rm(fs, dir) == [fs EXCEPT ![dir] = NoDir]

\* the clock of the host advances
Tick ==
    /\ now + 1 \in Times
    /\ now' = now + 1
    /\ UNCHANGED <<versions, pages, runs, convs, reqs, vids, tmpfs, sched,
                   callbackProperty, storage, infra>>

\* ------------------------------------------------- Office / CAD converters
\* kinds: "office" (HTTP conversion service), "cad" (CAD task graph),
\* "officeLocal" (libreoffice-convert in process)
ConverterKinds == {"office", "cad", "officeLocal"}

\* outcomes of one conversion submission
Outcomes == {"ok", "5xx", "4xx", "network"}

\* outcomes of libreConvertAsync
LocalOutcomes == {"ok", "error"}

maxRetries == 3

Min(a, b) == IF a < b THEN a ELSE b

\* Math.min(1000 * Math.pow(2, retryCount), 30000), convert-cad-to-pdf.ts:150
Backoff(retryCount) == Min(1000 * 2 ^ retryCount, 30000)

IdleConv ==
    [ pc |-> "idle", kind |-> "office", documentVersionId |-> 1,
      retryCount |-> 0, submissions |-> 0, delays |-> <<>>,
      response |-> "none", outcomes |-> <<>>, progress |-> <<>>,
      result |-> "none", error |-> "none", child |-> 0,
      tempDir |-> <<"office_conversion", 0>> ]

\* updateProgress of the converters
convProgress(cv, pct) == [cv EXCEPT !.progress = Append(@, pct)]

convReturn(cv, result, error) ==
    [cv EXCEPT !.result = result, !.error = error, !.pc = "done"]

\* An invocation of a converter for version v.
StartConverter(c, kind, v) ==
    /\ convs[c].pc = "idle"
    /\ convs' = [convs EXCEPT ![c] =
                   [convProgress(IdleConv, 0) EXCEPT
                       !.pc = "lookup", !.kind = kind, !.documentVersionId = v]]

\* the converter the pipeline applies to a declared type
KindFor(type, kind) ==
    \/ type = "docs" /\ kind \in {"office", "officeLocal"}
    \/ type = "cad" /\ kind = "cad"

\* convertCadToPdf(payload) / convertOfficeToPdf(payload) called for a
\* version of the converter's type, or for an id no version has
convertToPdf(c, kind, v) ==
    /\ versions[v].exists => KindFor(versions[v].type, kind)
    /\ StartConverter(c, kind, v)
    /\ UNCHANGED <<versions, pages, runs, reqs, vids, tmpfs, env>>

\* team and document lookup, getFile, and for the local converter the temp
\* directory named by the clock and the download of the source into it:
\* convert-cad-to-pdf.ts:36-119, convert-office-to-pdf.ts:42-111
CLookup(c) ==
    LET cv == convs[c]
        ver == versions[cv.documentVersionId]
        p10 == convProgress(cv, 10)
        p20 == convProgress(p10, 20)
        dir == <<"office_conversion", now>>
        l20 == [p20 EXCEPT !.tempDir = dir]
    IN  /\ cv.pc = "lookup"
        /\ UNCHANGED <<versions, pages, runs, reqs, vids, env>>
        /\ \/ /\ ~ver.exists
              /\ convs' = [convs EXCEPT ![c] =
                             convReturn(convProgress(cv, 0), "undefined", "none")]
              /\ UNCHANGED tmpfs
           \/ /\ ver.exists
              /\ convs' = [convs EXCEPT ![c] = convReturn(p10, "thrown", "getFile")]
              /\ UNCHANGED tmpfs
           \/ /\ ver.exists
              /\ cv.kind # "officeLocal"
              /\ convs' = [convs EXCEPT ![c] = [p20 EXCEPT !.pc = "submit"]]
              /\ UNCHANGED tmpfs
           \/ /\ ver.exists
              /\ cv.kind = "officeLocal"
              /\ \/ /\ convs' = [convs EXCEPT ![c] =
                                   convReturn(l20, "thrown", "download")]
                    /\ tmpfs' = Mkdir(tmpfs, dir)
                 \/ /\ convs' = [convs EXCEPT ![c] =
                                   [convProgress(l20, 30) EXCEPT !.pc = "submit"]]
                    /\ tmpfs' = WriteInput(Mkdir(tmpfs, dir), dir, c)

\* the statements after the retry loop when the last response is no success,
\* convert-cad-to-pdf.ts:172-180
ConversionFailed(cv) == convReturn(convProgress(cv, 0), "thrown", "Conversion failed")

\* SubmitRemote with a network error that does not count as an attempt
SubmitRemote_NetworkUncounted(cv, o) ==
    LET sent == [cv EXCEPT !.submissions = @ + 1, !.outcomes = Append(@, o)]
        rc == cv.retryCount + 1
        waited == [sent EXCEPT !.retryCount = rc,
                               !.delays = Append(@, Backoff(rc))]
    IN  CASE o = "ok" -> [sent EXCEPT !.response = "ok", !.pc = "save"]
          [] o = "4xx" -> ConversionFailed([sent EXCEPT !.response = "4xx"])
          [] o = "5xx" ->
                IF rc < maxRetries
                THEN [waited EXCEPT !.response = "5xx"]
                ELSE ConversionFailed([waited EXCEPT !.response = "5xx"])
          [] o = "network" ->
                [sent EXCEPT !.delays = Append(@, Backoff(rc))]

\* SubmitRemote retrying every non-success status (status >= 400)
SubmitRemote_RetryClientError(cv, o) ==
    LET sent == [cv EXCEPT !.submissions = @ + 1, !.outcomes = Append(@, o)]
        rc == cv.retryCount + 1
        waited == [sent EXCEPT !.retryCount = rc,
                               !.delays = Append(@, Backoff(rc))]
    IN  CASE o = "ok" -> [sent EXCEPT !.response = "ok", !.pc = "save"]
          [] o \in {"5xx", "4xx"} ->
                IF rc < maxRetries
                THEN [waited EXCEPT !.response = o]
                ELSE ConversionFailed([waited EXCEPT !.response = o])
          [] o = "network" ->
                IF rc >= maxRetries
                THEN convReturn([sent EXCEPT !.retryCount = rc], "thrown", "network")
                ELSE waited

\* One pass of the retry loop: the submission, the classification of its
\* outcome and the backoff wait, convert-cad-to-pdf.ts:126-180
SubmitRemote(cv, o) ==
    LET sent == [cv EXCEPT !.submissions = @ + 1, !.outcomes = Append(@, o)]
        rc == cv.retryCount + 1
        waited == [sent EXCEPT !.retryCount = rc,
                               !.delays = Append(@, Backoff(rc))]
    IN  CASE o = "ok" -> [sent EXCEPT !.response = "ok", !.pc = "save"]
          [] o = "4xx" -> ConversionFailed([sent EXCEPT !.response = "4xx"])
          [] o = "5xx" ->
                IF rc < maxRetries
                THEN [waited EXCEPT !.response = "5xx"]
                ELSE ConversionFailed([waited EXCEPT !.response = "5xx"])
          [] o = "network" ->
                IF rc >= maxRetries
                THEN convReturn([sent EXCEPT !.retryCount = rc], "thrown", "network")
                ELSE waited

\* libreConvertAsync and the catch around it, convert-office-to-pdf.ts:113-119
\* and 190-196: any failure is thrown at once
SubmitLocal(cv, o) ==
    LET sent == [cv EXCEPT !.submissions = @ + 1, !.outcomes = Append(@, o)]
    IN  IF o = "ok"
        THEN [convProgress(sent, 70) EXCEPT !.response = "ok", !.pc = "save"]
        ELSE convReturn(convProgress(sent, 0), "thrown", "Document conversion failed")

CSubmit(c, o) ==
    LET cv == convs[c]
    IN  /\ cv.pc = "submit"
        /\ cv.retryCount < maxRetries
        /\ o \in (IF cv.kind = "officeLocal" THEN LocalOutcomes ELSE Outcomes)
        /\ convs' = [convs EXCEPT ![c] =
                       IF cv.kind = "officeLocal"
                       THEN SubmitLocal(cv, o) ELSE SubmitRemote(cv, o)]
        /\ UNCHANGED <<versions, pages, runs, reqs, vids, tmpfs, env>>

\* the progress updates between the successful response and the chained
\* rasterization
SaveProgress(cv) ==
    CASE cv.kind = "office" -> <<30, 40>>
      [] cv.kind = "cad" -> <<40, 60, 80>>
      [] OTHER -> <<80>>

\* prisma.documentVersion.update after the put, convert-cad-to-pdf.ts:219-226
Converted(ver) ==
    [ver EXCEPT !.file = "converted", !.type = "pdf", !.storageType = "S3_PATH"]

\* a converter that updates the version although the put has failed
PutFailed_Updated(ver) == Converted(ver)

\* the version row when the put has thrown or returned no data: the
\* converter leaves before the update, convert-cad-to-pdf.ts:195-204
PutFailed(ver) == ver

\* SaveResult and TriggerRasterization: putFileServer, the update of the
\* version and the call of convertPdfToImage without a versionNumber,
\* convert-cad-to-pdf.ts:182-236, convert-office-to-pdf.ts:121-170
CSave(c) ==
    LET cv == convs[c]
        v == cv.documentVersionId
        before == SubSeq(SaveProgress(cv), 1, Len(SaveProgress(cv)) - 1)
    IN  /\ cv.pc = "save"
        /\ UNCHANGED <<pages, reqs, vids, tmpfs, env>>
        /\ \/ \* putFileServer throws
              /\ convs' = [convs EXCEPT ![c] =
                   IF cv.kind = "officeLocal"
                   THEN convReturn(convProgress(cv, 0), "thrown", "Document conversion failed")
                   ELSE convReturn([cv EXCEPT !.progress = @ \o before],
                                   "thrown", "put")]
              /\ versions' = [versions EXCEPT ![v] = PutFailed(@)]
              /\ UNCHANGED runs
           \/ \* putFileServer returns no data or no storage type
              /\ convs' = [convs EXCEPT ![c] =
                   convReturn([cv EXCEPT !.progress = @ \o before \o <<0>>],
                              "undefined", "Failed to save converted file")]
              /\ versions' = [versions EXCEPT ![v] = PutFailed(@)]
              /\ UNCHANGED runs
           \/ \E r \in Runs :
                /\ FreeRun(r)
                /\ versions' = [versions EXCEPT ![v] = Converted(@)]
                /\ runs' = [runs EXCEPT ![r] = StartedRun(v, 0)]
                /\ convs' = [convs EXCEPT ![c] =
                     [cv EXCEPT !.progress = @ \o SaveProgress(cv),
                                !.child = r, !.pc = "rasterize"]]

\* the chained rasterization has returned or thrown; the converter reports
\* success either way, convert-cad-to-pdf.ts:230-255.  The local converter
\* removes its temp directory first, and logs and goes on when the removal
\* fails, convert-office-to-pdf.ts:177-189
CFinish(c) ==
    LET cv == convs[c]
    IN  /\ cv.pc = "rasterize"
        /\ runs[cv.child].pc = "done"
        /\ convs' = [convs EXCEPT ![c] =
                       convReturn(convProgress(cv, 100), "success", "none")]
        /\ \/ /\ cv.kind = "officeLocal"
              /\ tmpfs' = Rm(tmpfs, cv.tempDir)
           \/ UNCHANGED tmpfs
        /\ UNCHANGED <<versions, pages, runs, reqs, vids, env>>

\* --------------------------------------------------------- Video Optimizer
Videos == {1, 2}

\* 500 * 1024 * 1024, optimize-video.ts:111
SizeGuard == 500 * 1024 * 1024

\* Math.round(metadata.format.duration || 0) of the probe
Durations == {0, 42}

\* Math.round(40 + progress.percent * 0.4), optimize-video.ts:167-175
ScaledProgress(percent) == (400 + 4 * percent + 5) \div 10

\* the percents the ffmpeg progress event of a transcoding may carry
FfmpegPercents == {50}

IdleVid ==
    [ pc |-> "idle", documentVersionId |-> 1, fileSize |-> 0, duration |-> 0,
      progress |-> <<>>, result |-> "none", error |-> "none",
      tempDirectory |-> <<"video", 0>>, probedInput |-> 0,
      transcoded |-> FALSE, uploaded |-> FALSE, lengthWrites |-> 0 ]

vidProgress(vd, pct) == [vd EXCEPT !.progress = Append(@, pct)]

\* the catch of optimizeVideo logs and rethrows, optimize-video.ts:256-262
vidThrow(vd, error) == [vd EXCEPT !.result = "thrown", !.error = error, !.pc = "done"]

\* The state of a task when optimizeVideo yields at its first await,
\* optimize-video.ts:25-45
StartedVid(v, fileSize) ==
    [vidProgress(IdleVid, 0) EXCEPT
        !.pc = "fetch", !.documentVersionId = v, !.fileSize = fileSize]

\* optimizeVideo(payload) called for version v
optimizeVideo(o, v, fileSize) ==
    /\ vids[o].pc = "idle"
    /\ versions[v].exists
    /\ vids' = [vids EXCEPT ![o] = StartedVid(v, fileSize)]
    /\ UNCHANGED <<versions, pages, runs, convs, reqs, tmpfs, env>>

\* getFile, the temp directory named by the clock, the fetch of the video
\* and its download to input.mp4 there, optimize-video.ts:42-67
VFetch(o) ==
    LET vd == vids[o]
        dir == <<"video", now>>
        p10 == [vidProgress(vd, 10) EXCEPT !.tempDirectory = dir]
        p20 == vidProgress(p10, 20)
    IN  /\ vd.pc = "fetch"
        /\ UNCHANGED <<versions, pages, runs, convs, reqs, env>>
        /\ \/ /\ vids' = [vids EXCEPT ![o] = vidThrow(vd, "getFile")]
              /\ UNCHANGED tmpfs
           \/ /\ vids' = [vids EXCEPT ![o] =
                             vidThrow(p10, "Failed to fetch video stream")]
              /\ tmpfs' = Mkdir(tmpfs, dir)
           \/ /\ vids' = [vids EXCEPT ![o] = vidThrow(p20, "download")]
              /\ tmpfs' = Mkdir(tmpfs, dir)
           \/ /\ vids' = [vids EXCEPT ![o] = [vidProgress(p20, 30) EXCEPT !.pc = "probe"]]
              /\ tmpfs' = WriteInput(Mkdir(tmpfs, dir), dir, o)

\* ffmpeg.ffprobe(inputPath), optimize-video.ts:68-101; it fails when the
\* input file is gone
VProbe(o) ==
    LET vd == vids[o]
        dir == tmpfs[vd.tempDirectory]
    IN  /\ vd.pc = "probe"
        /\ UNCHANGED <<versions, pages, runs, convs, reqs, tmpfs, env>>
        /\ \/ vids' = [vids EXCEPT ![o] = vidThrow(vd, "probe")]
           \/ /\ dir.exists /\ dir.input # 0
              /\ \E d \in Durations :
                   vids' = [vids EXCEPT ![o] =
                              [vd EXCEPT !.duration = d, !.probedInput = dir.input,
                                         !.pc = "persist"]]

\* an optimizer without the size guard
SkipOptimization_Never(fileSize) == FALSE

\* the size guard of optimize-video.ts:111
SkipOptimization(fileSize) == fileSize > SizeGuard

\* await fs.rm(tempDirectory, {recursive: true}) and the return after it,
\* optimize-video.ts:117-124 and 246-255: a rejection (the directory is
\* gone, or the removal fails) is thrown
VCleanup(o, vd) ==
    \/ /\ tmpfs[vd.tempDirectory].exists
       /\ tmpfs' = Rm(tmpfs, vd.tempDirectory)
       /\ vids' = [vids EXCEPT ![o] =
            [vidProgress(vd, 100) EXCEPT !.result = "success", !.pc = "done"]]
    \/ /\ UNCHANGED tmpfs
       /\ vids' = [vids EXCEPT ![o] = vidThrow(vd, "cleanup")]

\* the update of the version's length and the size guard,
\* optimize-video.ts:103-143.  lengthWrites counts the updates of length the
\* task has made.
VPersist(o) ==
    LET vd == vids[o]
        v == vd.documentVersionId
    IN  /\ vd.pc = "persist"
        /\ UNCHANGED <<pages, runs, convs, reqs, env>>
        /\ \/ /\ ~versions[v].exists
              /\ vids' = [vids EXCEPT ![o] = vidThrow(vd, "update")]
              /\ UNCHANGED <<versions, tmpfs>>
           \/ /\ versions[v].exists
              /\ versions' = [versions EXCEPT ![v].length = vd.duration]
              /\ LET wrote == [vd EXCEPT !.lengthWrites = @ + 1]
                 IN  IF SkipOptimization(vd.fileSize)
                     THEN VCleanup(o, wrote)
                     ELSE /\ vids' = [vids EXCEPT ![o] =
                                [vidProgress(wrote, 40) EXCEPT !.pc = "transcode"]]
                          /\ UNCHANGED tmpfs

\* the ffmpeg run with one progress event, optimize-video.ts:145-202; it
\* fails when the input file is gone
VTranscode(o) ==
    LET vd == vids[o]
        dir == tmpfs[vd.tempDirectory]
    IN  /\ vd.pc = "transcode"
        /\ UNCHANGED <<versions, pages, runs, convs, reqs, tmpfs, env>>
        /\ \/ vids' = [vids EXCEPT ![o] = vidThrow(vd, "ffmpeg")]
           \/ /\ dir.exists /\ dir.input # 0
              /\ \E percent \in FfmpegPercents :
                   LET event == vidProgress(vd, ScaledProgress(percent))
                   IN  \/ vids' = [vids EXCEPT ![o] = vidThrow(event, "ffmpeg")]
                       \/ vids' = [vids EXCEPT ![o] =
                             [vidProgress(event, 80) EXCEPT
                                 !.transcoded = TRUE, !.pc = "upload"]]

\* streamFileServer, optimize-video.ts:204-234
VUpload(o) ==
    LET vd == vids[o]
    IN  /\ vd.pc = "upload"
        /\ UNCHANGED <<versions, pages, runs, convs, reqs, tmpfs, env>>
        /\ \/ vids' = [vids EXCEPT ![o] = vidThrow(vd, "upload")]
           \/ vids' = [vids EXCEPT ![o] =
                [vidProgress(vd, 90) EXCEPT !.uploaded = TRUE, !.pc = "finalize"]]

\* an update that stores the file and resets the duration
Optimized_LengthReset(ver) == [ver EXCEPT !.file = "optimized", !.length = 0]

\* prisma.documentVersion.update({file: data}), optimize-video.ts:236-244
Optimized(ver) == [ver EXCEPT !.file = "optimized"]

\* the update of the version's file, the cleanup and the return,
\* optimize-video.ts:236-255
VFinalize(o) ==
    LET vd == vids[o]
        v == vd.documentVersionId
    IN  /\ vd.pc = "finalize"
        /\ UNCHANGED <<pages, runs, convs, reqs, env>>
        /\ versions' = [versions EXCEPT ![v] = Optimized(@)]
        /\ VCleanup(o, vd)

\* ---------------------------------------------------- delayed task scheduler
Timers == {1, 2}

\* Delays and instants are counted in whole seconds: delayMs is 1000 times
\* the delay of the model.
\* The largest delay a timer of the runtime holds is a signed 32-bit number
\* of milliseconds, 2^31 - 1; in whole seconds:
TIMEOUT_MAX == ((2^30 - 1) + 2^30) \div 1000

\* delays: the default 0, a short delay, the ten minutes of the dataroom
\* notification, and the delays around the timer's width
Delays == {0, 1, 10 * 60, TIMEOUT_MAX, TIMEOUT_MAX + 1}

\* the instants, in seconds since scheduleTask, at which the event loop
\* looks at its timers
Instants == Delays \cup {2}

Payloads == {"a", "b"}

\* outcomes of the scheduled task
TaskOutcomes == {"resolved", "thrown"}

\* setTimeout(callback, delayMs): a delay above 2^31 - 1 milliseconds is set
\* to 1 millisecond, which is due at instant 0
TimeoutOf(delay) ==
    IF delay > TIMEOUT_MAX THEN 0 ELSE delay

IdleTimer ==
    [ pc |-> "idle", delay |-> 0, timeout |-> 0, elapsed |-> 0,
      payload |-> "none", received |-> "none", executions |-> 0,
      firedAt |-> 0, outcome |-> "none", promise |-> "none" ]

\* scheduleTask(task, payload, delayMs): the timer is set and the pending
\* promise returned, part_001:5-24
scheduleTask(t, payload, delay) ==
    /\ sched[t].pc = "idle"
    /\ sched' = [sched EXCEPT ![t] =
                   [IdleTimer EXCEPT !.pc = "waiting", !.delay = delay,
                                     !.timeout = TimeoutOf(delay),
                                     !.payload = payload, !.promise = "pending"]]
    /\ UNCHANGED <<versions, pages, runs, convs, reqs, vids, tmpfs, now,
                   callbackProperty, storage, infra>>

\* time passes for a timer that is set and not due
TimerTick(t) ==
    /\ sched[t].pc = "waiting"
    /\ sched[t].elapsed < sched[t].timeout
    /\ \E i \in Instants :
         /\ i > sched[t].elapsed
         /\ \A j \in Instants : j > sched[t].elapsed => i <= j
         /\ sched' = [sched EXCEPT ![t].elapsed = i]
    /\ UNCHANGED <<versions, pages, runs, convs, reqs, vids, tmpfs, now,
                   callbackProperty, storage, infra>>

\* the timer callback runs once the timer is due and calls task(payload),
\* part_001:12-14
TimerFire(t) ==
    /\ sched[t].pc = "waiting"
    /\ sched[t].elapsed >= sched[t].timeout
    /\ sched' = [sched EXCEPT ![t].pc = "running", ![t].executions = @ + 1,
                              ![t].firedAt = sched[t].elapsed,
                              ![t].received = sched[t].payload]
    /\ UNCHANGED <<versions, pages, runs, convs, reqs, vids, tmpfs, now,
                   callbackProperty, storage, infra>>

\* the task's promise settles: resolve() after it, or after the catch has
\* logged its error, part_001:13-19
TaskSettled(t, outcome) ==
    /\ sched[t].pc = "running"
    /\ sched' = [sched EXCEPT ![t].pc = "done", ![t].outcome = outcome,
                              ![t].promise = "resolved"]
    /\ UNCHANGED <<versions, pages, runs, convs, reqs, vids, tmpfs, now,
                   callbackProperty, storage, infra>>

\* ------------------------------------------------------------ rate limiter
\* documents/index.ts:223-282.  Time is Date.now(), counted in ticks of which
\* Second make one second (1000 in the code); the sorted set at the key
\* papermark:rl:<identifier> holds one member per distinct now.toString(),
\* its score being that same instant.
Second == 2

\* the instants Date.now() takes
Stamps == 1..(3 * Second)

\* the calls of limit that are followed
MaxCalls == 3

\* the arguments of ratelimit(requests, duration), duration in seconds
Limits == {1, 2}
LimitDurations == {1, 2}

NoLimiter ==
    [ created |-> FALSE, requests |-> 0, duration |-> 0, zset |-> {},
      expireAt |-> 0, clock |-> 0, calls |-> <<>> ]

\* ZADD key score member with score = now and member = now.toString():
\* a member already in the set only has its score written again
zAdd(zs, at) == zs \cup {at}

\* ZREMRANGEBYSCORE key 0 max: the members whose score is at most max go
zRemRangeByScore(zs, max) == { m \in zs : m > max }

\* Math.ceil(duration * 1.5) seconds, documents/index.ts:253
ExpireAfter(duration) == ((3 * duration + 1) \div 2) * Second

\* the set at the key when a call made at `at` reaches it: gone once the
\* expiration the last call set has passed
KeyAt(lm, at) == IF at >= lm.expireAt THEN {} ELSE lm.zset

\* ratelimit(requests, duration), documents/index.ts:224-231
ratelimit(requests, duration) ==
    /\ ~limiter.created
    /\ limiter' = [NoLimiter EXCEPT !.created = TRUE, !.requests = requests,
                                    !.duration = duration]
    /\ UNCHANGED <<pipeline, bucket, deletion>>

\* limit(identifier), documents/index.ts:233-279, called at Date.now() = at:
\* the transaction trims, adds, counts and sets the expiration in one step
limit(at) ==
    LET lm == limiter
        windowMs == lm.duration * Second
        trimmed == zRemRangeByScore(KeyAt(lm, at), at - windowMs)
        added == zAdd(trimmed, at)
        count == Cardinality(added)
        ran == [lm EXCEPT !.zset = added,
                          !.expireAt = at + ExpireAfter(lm.duration),
                          !.clock = at]
        result(success, remaining, error) ==
            [ at |-> at, success |-> success, limit |-> lm.requests,
              remaining |-> remaining, reset |-> at + windowMs,
              error |-> error ]
    IN  /\ lm.created
        /\ Len(lm.calls) < MaxCalls
        /\ at >= lm.clock
        /\ UNCHANGED <<pipeline, bucket, deletion>>
        /\ \/ limiter' = [ran EXCEPT !.calls = Append(@,
                  result(count <= lm.requests,
                         IF lm.requests > count THEN lm.requests - count ELSE 0,
                         FALSE))]
           \/ \* multi.exec() rejects, the commands ran or did not: fail open
              \E reached \in {ran, [lm EXCEPT !.clock = at]} :
                limiter' = [reached EXCEPT !.calls = Append(@, result(TRUE, 1, TRUE))]

\* -------------------------------------------------------- team file removal
\* delete-team-files-server.ts.  The keys under `${teamId}/`.
MaxObjects == 4
Keys == 1..MaxObjects

\* the keys one ListObjectsV2 response holds at most (1000 in S3)
MaxKeys == 2

IdleDeletion ==
    [ pc |-> "idle", nested |-> FALSE, Contents |-> {}, IsTruncated |-> FALSE,
      result |-> "none", atCall |-> {}, deleted |-> {}, failed |-> FALSE ]

\* an object is put under the team's prefix, put-file-server.ts:47-56
PutTeamObject(k) ==
    /\ deletion.pc = "idle"
    /\ k \notin bucket
    /\ bucket' = bucket \cup {k}
    /\ UNCHANGED <<pipeline, limiter, deletion>>

\* deleteTeamFilesServer({teamId}), delete-team-files-server.ts:9-11
deleteTeamFilesServer ==
    /\ deletion.pc = "idle"
    /\ deletion' = [IdleDeletion EXCEPT !.pc = "list", !.atCall = bucket]
    /\ UNCHANGED <<pipeline, limiter, bucket>>

\* the first keys of a listing, in key order
FirstKeys(ks) == { k \in ks : Cardinality({ j \in ks : j < k }) < MaxKeys }

\* the frame at hand returns value.  A frame entered by the recursive call
\* of line 50 returns to a caller that drops the value and returns true
\* (line 53), and so does every caller up to the first one.
Returned(dl, value) ==
    [dl EXCEPT !.pc = "done", !.result = IF dl.nested THEN "true" ELSE value]

\* delete-team-files-server.ts:18-27
DList ==
    LET dl == deletion
        Contents == FirstKeys(bucket)
    IN  /\ dl.pc = "list"
        /\ UNCHANGED <<pipeline, limiter, bucket>>
        /\ \/ /\ Contents = {}
              /\ deletion' = Returned(dl, "true")
           \/ /\ Contents # {}
              /\ deletion' = [dl EXCEPT !.pc = "delete", !.Contents = Contents,
                                        !.IsTruncated = (Contents # bucket)]
           \/ \* the ListObjectsV2Command is rejected: catch, return false
              deletion' = Returned([dl EXCEPT !.failed = TRUE], "false")

\* delete-team-files-server.ts:30-53 : one chunk, as a listing holds at most
\* 1000 keys.  The response names the keys deleted and, under Errors, the
\* keys that were not; the code does not read it.
DDelete ==
    LET dl == deletion
    IN  /\ dl.pc = "delete"
        /\ UNCHANGED <<pipeline, limiter>>
        /\ \E gone \in SUBSET dl.Contents :
             LET after == [dl EXCEPT !.deleted = @ \cup gone]
             IN  /\ bucket' = bucket \ gone
                 /\ \/ /\ dl.IsTruncated
                       /\ deletion' = [after EXCEPT !.pc = "list", !.nested = TRUE,
                                                    !.Contents = {}]
                    \/ /\ ~dl.IsTruncated
                       /\ deletion' = Returned(after, "true")
                    \/ \* the DeleteObjectsCommand is rejected
                       deletion' = Returned([after EXCEPT !.failed = TRUE], "false")

\* ------------------------------------------------- version-creation handler
Types == {"pdf", "docs", "slides", "video", "sheet", "cad"}

\* fileSize of the request body: absent (0, as fileSize || 0 reads it), one
\* byte under 500 MiB, 500 MiB, one byte over, 700 MiB
FileSizes == {0, 524287999, 524288000, 524288001, 734003200}

StorageTypes == {"S3_PATH", "VERCEL_BLOB"}

IdleReq ==
    [ pc |-> "idle", type |-> "pdf", storageType |-> "S3_PATH",
      numPages |-> 0, pdfPages |-> 0, fileSize |-> 0,
      currentVersionNumber |-> 0, versionId |-> 0, status |-> 0,
      started |-> {} ]

\* versions ordered by createdAt desc, take 1: pdf-to-image.ts:260-264
LatestVersion(vs) ==
    CHOOSE v \in VersionIds :
        vs[v].exists /\ \A u \in VersionIds : vs[u].exists => u <= v

\* prisma.documentVersion.updateMany({id: {not: id}}, isPrimary false)
DemoteOthersById(vs, id) ==
    [ v \in VersionIds |->
        IF vs[v].exists /\ v # id
        THEN [vs[v] EXCEPT !.isPrimary = FALSE]
        ELSE vs[v] ]

\* POST .../versions: the document and its latest version are read,
\* pdf-to-image.ts:251-272
HRead(h, type, storageType, pdfPages, fileSize) ==
    /\ reqs[h].pc = "idle"
    /\ reqs' = [reqs EXCEPT ![h] =
                  [IdleReq EXCEPT !.pc = "create", !.type = type,
                      !.storageType = storageType,
                      !.numPages = UploadNumPages(type, pdfPages),
                      !.pdfPages = pdfPages, !.fileSize = fileSize,
                      !.currentVersionNumber =
                          versions[LatestVersion(versions)].versionNumber]]
    /\ UNCHANGED <<versions, pages, runs, convs, vids, tmpfs, env>>

\* prisma.documentVersion.create, pdf-to-image.ts:273-286
HCreate(h) ==
    LET rq == reqs[h]
    IN  /\ rq.pc = "create"
        /\ \E id \in VersionIds :
             /\ ~versions[id].exists
             /\ \A u \in VersionIds : u < id => versions[u].exists
             /\ versions' = [versions EXCEPT ![id] =
                  NewVersion(rq.type, rq.storageType, rq.numPages,
                             rq.currentVersionNumber + 1, rq.pdfPages)]
             /\ reqs' = [reqs EXCEPT ![h].versionId = id, ![h].pc = "demote"]
        /\ UNCHANGED <<pages, runs, convs, vids, tmpfs, env>>

\* the first updateMany, pdf-to-image.ts:288-297
HDemote(h) ==
    LET rq == reqs[h]
    IN  /\ rq.pc = "demote"
        /\ versions' = DemoteOthersById(versions, rq.versionId)
        /\ reqs' = [reqs EXCEPT ![h].pc = "dispatch"]
        /\ UNCHANGED <<pages, runs, convs, vids, tmpfs, env>>

\* the second updateMany, the dispatch by declared type and the response,
\* pdf-to-image.ts:299-355.  started: the tasks the dispatch has started.
HDispatch(h) ==
    LET rq == reqs[h]
        id == rq.versionId
        done == [rq EXCEPT !.pc = "done", !.status = 200]
    IN  /\ rq.pc = "dispatch"
        /\ versions' = DemoteOthersById(versions, id)
        /\ UNCHANGED <<pages, tmpfs, env>>
        /\ \/ /\ rq.type \in {"docs", "slides"}
              /\ \E c \in Converters : StartConverter(c, "officeLocal", id)
              /\ reqs' = [reqs EXCEPT ![h] = [done EXCEPT !.started = {"office"}]]
              /\ UNCHANGED <<runs, vids>>
           \/ /\ rq.type = "video"
              /\ \E o \in Videos :
                   /\ vids[o].pc = "idle"
                   /\ vids' = [vids EXCEPT ![o] = StartedVid(id, rq.fileSize)]
              /\ reqs' = [reqs EXCEPT ![h] = [done EXCEPT !.started = {"video"}]]
              /\ UNCHANGED <<runs, convs>>
           \/ /\ rq.type = "pdf"
              /\ \E r \in Runs :
                   /\ FreeRun(r)
                   /\ runs' = [runs EXCEPT ![r] =
                                 StartedRun(id, versions[id].versionNumber)]
              /\ reqs' = [reqs EXCEPT ![h] = [done EXCEPT !.started = {"rasterizer"}]]
              /\ UNCHANGED <<convs, vids>>
           \/ /\ rq.type \notin {"docs", "slides", "video", "pdf"}
              /\ reqs' = [reqs EXCEPT ![h] = done]
              /\ UNCHANGED <<runs, convs, vids>>

\* ----------------------------------------------------------- specification
\* the uploads the versions of the Document come from
Uploads ==
    { [type |-> "pdf", storageType |-> "S3_PATH"],
      [type |-> "docs", storageType |-> "VERCEL_BLOB"],
      [type |-> "cad", storageType |-> "S3_PATH"] }

\* The Document when the tasks below start: its first version, and possibly
\* a second one the version handler has created since (the new version is
\* primary, the first one demoted).
InitVersions(vs) ==
    \E u1 \in Uploads, k1 \in 0..MaxPages :
      LET v1 == NewVersion(u1.type, u1.storageType,
                           UploadNumPages(u1.type, k1), 1, k1)
      IN  \/ vs = [v \in VersionIds |-> IF v = 1 THEN v1 ELSE NoVersion]
          \/ \E u2 \in Uploads, k2 \in 0..MaxPages :
               vs = [v \in VersionIds |->
                       CASE v = 1 -> [v1 EXCEPT !.isPrimary = FALSE]
                         [] v = 2 -> NewVersion(u2.type, u2.storageType,
                                                UploadNumPages(u2.type, k2), 2, k2)
                         [] OTHER -> NoVersion]

\* no task has started, the temp directory is empty
InitTasks ==
    /\ pages = {}
    /\ runs = [r \in Runs |-> IdleRun]
    /\ convs = [c \in Converters |-> IdleConv]
    /\ reqs = [h \in Requests |-> IdleReq]
    /\ vids = [o \in Videos |-> IdleVid]
    /\ now = 1
    /\ tmpfs = [d \in TempDirs |-> NoDir]
    /\ sched = [t \in Timers |-> IdleTimer]
    /\ callbackProperty = FALSE
    /\ storage = [k \in PageKeys |-> NoObject]
    /\ limiter = NoLimiter
    /\ bucket = {}
    /\ deletion = IdleDeletion

Init ==
    /\ InitVersions(versions)
    /\ InitTasks

\* a Document of two video versions
VideoVersions ==
    [ v \in VersionIds |->
        CASE v = 1 -> [NewVersion("video", "S3_PATH", 1, 1, 0) EXCEPT !.isPrimary = FALSE]
          [] v = 2 -> NewVersion("video", "S3_PATH", 1, 2, 0)
          [] OTHER -> NoVersion ]

InitTemp ==
    /\ versions = VideoVersions
    /\ InitTasks

Video ==
    \/ \E o \in Videos : VFetch(o)
    \/ \E o \in Videos : VProbe(o)
    \/ \E o \in Videos : VPersist(o)
    \/ \E o \in Videos : VTranscode(o)
    \/ \E o \in Videos : VUpload(o)
    \/ \E o \in Videos : VFinalize(o)

RasterizeChained ==
    \/ \E r \in Runs : RFindVersion(r)
    \/ \E r \in Runs : RLoadPage(r)
    \/ \E r \in Runs : RFindPage(r)
    \/ \E r \in Runs : RCreatePage(r)
    \/ \E r \in Runs : RPromote(r)
    \/ \E r \in Runs : RRevalidate(r)

Rasterize ==
    \/ RasterizeChained
    \/ \E r \in Runs : RDemote(r)

Convert ==
    \/ \E c \in Converters : CLookup(c)
    \/ \E c \in Converters, o \in Outcomes \cup LocalOutcomes : CSubmit(c, o)
    \/ \E c \in Converters : CSave(c)
    \/ \E c \in Converters : CFinish(c)

\* The request bodies: the page count matters for the types that end as a
\* PDF, the byte size for a video.
Bodies ==
    { b \in [type : Types, storageType : StorageTypes,
              pdfPages : 0..MaxPages, fileSize : FileSizes] :
        /\ b.type \in {"pdf", "docs", "slides"} \/ b.pdfPages = 0
        /\ b.type = "video" \/ b.fileSize = 0 }

\* the steps of the requests hs
HandleBy(hs) ==
    \/ \E h \in hs, b \in Bodies :
         HRead(h, b.type, b.storageType, b.pdfPages, b.fileSize)
    \/ \E h \in hs : HCreate(h)
    \/ \E h \in hs : HDemote(h)
    \/ \E h \in hs : HDispatch(h)

FirstRequest == CHOOSE h \in Requests : \A g \in Requests : h <= g

\* one request
Handle == HandleBy({FirstRequest})

\* Rasterization runs invoked for the versions of the Document.
Next ==
    \/ \E r \in Runs, v \in UploadedIds : convertPdfToImage(r, v)
    \/ Rasterize

Spec == Init /\ [][Next]_vars

\* no run ends without success for a reason of its own: the only failure is
\* a create the store rejects
NoOwnFailure ==
    \A r \in Runs :
        (runs[r].pc # "done" /\ runs'[r].pc = "done"
            /\ runs'[r].result # "success") => runs[r].pc = "createPage"

\* Rasterization runs in which files, renders, uploads and the revalidation
\* call all succeed.
NextRace == Next /\ NoOwnFailure

SpecRace == Init /\ [][NextRace]_vars

\* One rasterization run, over PDFs whose pages take the shapes of
\* PageRenders.
FirstRun == CHOOSE r \in Runs : \A q \in Runs : r <= q

NextPage ==
    \/ \E v \in UploadedIds : convertPdfToImage(FirstRun, v)
    \/ RFindVersion(FirstRun)
    \/ RenderPage(FirstRun, PageRenders)
    \/ RFindPage(FirstRun)
    \/ RCreatePage(FirstRun)
    \/ RPromote(FirstRun)
    \/ RDemote(FirstRun)
    \/ RRevalidate(FirstRun)

SpecPage == Init /\ [][NextPage]_vars

\* One rasterization run, and the registration of a progress observer.
NextObserve ==
    \/ setProgressCallback
    \/ NextPage

SpecObserve == Init /\ [][NextObserve]_vars

\* Video optimizations of the two versions of a video Document, started at
\* any times of the clock.
NextTemp ==
    \/ \E o \in Videos, v \in UploadedIds, fileSize \in FileSizes :
         optimizeVideo(o, v, fileSize)
    \/ Video
    \/ Tick

SpecTemp == InitTemp /\ [][NextTemp]_vars

\* Tasks handed to scheduleTask.  The event loop runs a timer callback that
\* is due: weak fairness of the timer's steps.
Schedule ==
    \/ \E t \in Timers, payload \in Payloads, delay \in Delays :
         scheduleTask(t, payload, delay)
    \/ \E t \in Timers : TimerTick(t)
    \/ \E t \in Timers : TimerFire(t)
    \/ \E t \in Timers, outcome \in TaskOutcomes : TaskSettled(t, outcome)

\* the scheduler belongs to the surrounding application: no Version is
\* involved
InitSchedule ==
    /\ versions = [v \in VersionIds |-> NoVersion]
    /\ InitTasks

SpecSchedule ==
    /\ InitSchedule
    /\ [][Schedule]_vars
    /\ \A t \in Timers : WF_vars(TimerTick(t)) /\ WF_vars(TimerFire(t))

\* Version-creation requests for the Document handled concurrently; the
\* tasks they start do not run here.
NextCreate == HandleBy(Requests)

\* a Document with its first version, a one-page PDF
InitCreate ==
    /\ versions = [v \in VersionIds |->
                     IF v = 1 THEN NewVersion("pdf", "S3_PATH", 1, 1, 1)
                     ELSE NoVersion]
    /\ InitTasks

SpecCreate == InitCreate /\ [][NextCreate]_vars

\* Conversion tasks and the rasterization each one chains into; a chained
\* run carries no versionNumber and never reaches RDemote.
NextConvert ==
    \/ \E c \in Converters, k \in ConverterKinds, v \in UploadedIds :
         convertToPdf(c, k, v)
    \/ Convert
    \/ RasterizeChained

SpecConvert == Init /\ [][NextConvert]_vars

\* The version handler and the tasks it dispatches.
NextHandle ==
    \/ Handle
    \/ Convert
    \/ Rasterize
    \/ Video

SpecHandle == Init /\ [][NextHandle]_vars

\* One limiter and the calls of limit for one identifier.
NextLimit ==
    \/ \E requests \in Limits, duration \in LimitDurations :
         ratelimit(requests, duration)
    \/ \E at \in Stamps : limit(at)

\* (no Document takes part: the start is the one of the scheduler)
SpecLimit == InitSchedule /\ [][NextLimit]_vars

\* The team's files are put, then removed.
NextDelete ==
    \/ \E k \in Keys : PutTeamObject(k)
    \/ deleteTeamFilesServer
    \/ DList
    \/ DDelete

SpecDelete == InitSchedule /\ [][NextDelete]_vars

\* ------------------------------------------------------------------ claims
\* the DocumentPage rows of version v, page n
RowsAt(ps, v, n) == { p \in ps : p.versionId = v /\ p.pageNumber = n }

ExistingVersions == { v \in VersionIds : versions[v].exists }

PrimaryVersions == { v \in ExistingVersions : versions[v].isPrimary }

\* no task is between two of its steps
Quiescent ==
    /\ \A r \in Runs : runs[r].pc \in {"idle", "done"}
    /\ \A c \in Converters : convs[c].pc \in {"idle", "done"}
    /\ \A h \in Requests : reqs[h].pc \in {"idle", "done"}
    /\ \A o \in Videos : vids[o].pc \in {"idle", "done"}

RemoteKinds == {"office", "cad"}

Transient == {"5xx", "network"}

AllTransient(outs) == \A i \in 1..Len(outs) : outs[i] \in Transient

\* C1: a step of convertPdfPageToImage for a (versionId, pageNumber) that
\* already has a DocumentPage row leaves exactly that one row for the key,
\* with its content as it was, and the call returns the id of that row.
C1_ExistingPageReturnedUnchanged ==
    [][\A r \in Runs :
         LET a == runs[r]
             v == a.documentVersionId
             n == IF a.pc = "page" THEN a.currentPage + 1 ELSE a.currentPage
             old == RowsAt(pages, v, n)
         IN  (a.pc \in {"page", "findPage"} /\ old # {} /\ runs'[r] # a) =>
               /\ RowsAt(pages', v, n) = old
               /\ Cardinality(old) = 1
               /\ a.pc = "findPage" =>
                    /\ runs'[r].pc # "createPage"
                    /\ \E p \in old : runs'[r].documentPageId = p.id
      ]_vars

\* C1 witness: a call has returned the id of a row that existed before it
C1_Witness ==
    \E r \in Runs :
        /\ runs[r].existed
        /\ \E p \in RowsAt(pages, runs[r].documentVersionId, runs[r].currentPage) :
             p.id = runs[r].documentPageId

\* C2: once a rasterization run of a Document with several Versions has
\* completed successfully (and no task is in flight), exactly one Version
\* of the Document has isPrimary = true.
C2_ExactlyOnePrimary ==
    (/\ Quiescent
     /\ Cardinality(ExistingVersions) >= 2
     /\ \E r \in Runs : runs[r].result = "success")
        => Cardinality(PrimaryVersions) = 1

\* C3: a Version with hasPages = true has a DocumentPage row for every page
\* number 1..numPages.
C3_HasPagesImpliesAllPages ==
    \A v \in ExistingVersions :
        versions[v].hasPages =>
            \A n \in 1..versions[v].numPages : RowsAt(pages, v, n) # {}

\* C3 witness: a version of several pages has hasPages = true
C3_Witness ==
    \E v \in ExistingVersions : versions[v].hasPages /\ versions[v].numPages >= 2

\* C4: a run attempts its pages in the order 1..N, each one after the
\* previous page has its row; when page k fails the run ends at once with
\* pages 1..k-1 persisted, takes no further step, and the step writes no
\* version's page count, hasPages or isPrimary; these are written only by a
\* run all of whose pages succeeded.
C4_SequentialAbort ==
    [][\A r \in Runs :
         LET a == runs[r]
             b == runs'[r]
             v == a.documentVersionId
         IN  /\ (a.pc # "idle" /\ b.currentPage # a.currentPage) =>
                   /\ b.currentPage = a.currentPage + 1
                   /\ a.conversionWithoutError
                   /\ \A n \in 1..a.currentPage : RowsAt(pages, v, n) # {}
             /\ (a.conversionWithoutError /\ ~b.conversionWithoutError) =>
                   /\ b.pc = "done" /\ b.result = "undefined"
                   /\ a.pc \in {"page", "createPage"}
                   /\ \A n \in 1..(b.currentPage - 1) : RowsAt(pages', v, n) # {}
                   /\ \A u \in VersionIds :
                        /\ versions'[u].numPages = versions[u].numPages
                        /\ versions'[u].hasPages = versions[u].hasPages
                        /\ versions'[u].isPrimary = versions[u].isPrimary
             /\ ~a.conversionWithoutError => b = a
             /\ (a.pc \in {"promote", "demote"}) =>
                   a.conversionWithoutError /\ a.currentPage = a.numPages
       ]_vars

\* C4 witness: page 2 failed after page 1 was persisted
C4_Witness ==
    \E r \in Runs :
        /\ ~runs[r].conversionWithoutError
        /\ runs[r].currentPage = 2
        /\ RowsAt(pages, runs[r].documentVersionId, 1) # {}
        /\ ~versions[runs[r].documentVersionId].hasPages

\* C5: the last progress update of a run that aborted at page k of N is the
\* percentage of the last page that succeeded, round((k-1)/N x 100).
C5_LastProgressIsLastSuccessfulPage ==
    \A r \in Runs :
        (runs[r].pc = "done" /\ ~runs[r].conversionWithoutError) =>
            runs[r].progress[Len(runs[r].progress)] =
                RoundPercent(runs[r].currentPage - 1, runs[r].numPages)

\* C6: a converter whose every submission failed transiently has made
\* exactly 3 submissions when it ends, ends by throwing, and never makes a
\* 4th submission.
C6_ThreeAttemptsThenThrow ==
    \A c \in Converters :
        (convs[c].kind \in RemoteKinds /\ AllTransient(convs[c].outcomes)) =>
            /\ convs[c].submissions <= 3
            /\ convs[c].submissions = Len(convs[c].outcomes)
            /\ convs[c].pc = "submit" => convs[c].submissions < 3
            /\ (convs[c].pc = "done" /\ convs[c].submissions > 0) =>
                  convs[c].submissions = 3 /\ convs[c].result = "thrown"

\* C6 witness: three transient failures, then the converter threw
C6_Witness ==
    \E c \in Converters :
        /\ convs[c].kind \in RemoteKinds
        /\ convs[c].pc = "done"
        /\ Len(convs[c].outcomes) = 3
        /\ AllTransient(convs[c].outcomes)
        /\ convs[c].result = "thrown"

\* C7: the delay before the second attempt is 1000 ms and the delay before
\* the third is 2000 ms, none above 30000 ms.
C7_BackoffDelays ==
    \A c \in Converters :
        /\ Len(convs[c].delays) >= 1 => convs[c].delays[1] = 1000
        /\ Len(convs[c].delays) >= 2 => convs[c].delays[2] = 2000
        /\ \A i \in 1..Len(convs[c].delays) : convs[c].delays[i] <= 30000

\* C8: a non-success response that is not 5xx ends the converter: it is the
\* last submission, no backoff delay follows it, and the converter throws.
C8_PermanentFailureAborts ==
    \A c \in Converters :
        LET outs == convs[c].outcomes
        IN  (convs[c].kind \in RemoteKinds /\ \E i \in 1..Len(outs) : outs[i] = "4xx") =>
              /\ outs[Len(outs)] = "4xx"
              /\ \A i \in 1..(Len(outs) - 1) : outs[i] # "4xx"
              /\ convs[c].submissions = Len(outs)
              /\ Len(convs[c].delays) = Len(outs) - 1
              /\ convs[c].pc = "done"
              /\ convs[c].result = "thrown"
              /\ convs[c].child = 0

\* C8 witness: a 4xx response after a transient failure
C8_Witness ==
    \E c \in Converters :
        /\ convs[c].kind \in RemoteKinds
        /\ Len(convs[c].outcomes) = 2
        /\ convs[c].outcomes[2] = "4xx"
        /\ convs[c].result = "thrown"

\* C9: when the rasterization chained after a successful conversion has
\* failed (thrown, or returned without a result), the converter returns
\* success, the Version keeps the converted file, type pdf and the storage
\* tag of the put, and hasPages is false.
C9_PartialSuccess ==
    \A c \in Converters :
        (/\ convs[c].pc = "done"
         /\ convs[c].child # 0
         /\ runs[convs[c].child].result \in {"thrown", "undefined"}) =>
            LET ver == versions[convs[c].documentVersionId]
            IN  /\ convs[c].result = "success"
                /\ ver.file = "converted"
                /\ ver.type = "pdf"
                /\ ver.storageType = "S3_PATH"
                /\ ~ver.hasPages

\* C10: the Metadata Store never holds two DocumentPage rows for one
\* (versionId, pageNumber), also when two runs have both passed the lookup
\* for the page before either creates the row.
C10_NoDuplicatePageRows ==
    \A v \in VersionIds, n \in PageNumbers : Cardinality(RowsAt(pages, v, n)) <= 1

\* C10 witness: a run is past the lookup, about to create the row of a page
\* whose row another run has created since
C10_Witness ==
    \E r \in Runs :
        /\ runs[r].pc = "createPage"
        /\ RowsAt(pages, runs[r].documentVersionId, runs[r].currentPage) # {}

\* C11: when two rasterization runs for two different Versions of the
\* Document have both completed successfully, exactly one Version of the
\* Document has isPrimary = true.
C11_OnePrimaryAfterConcurrentRuns ==
    \A r \in Runs, q \in Runs :
        (/\ runs[r].result = "success"
         /\ runs[q].result = "success"
         /\ runs[r].documentVersionId # runs[q].documentVersionId) =>
            Cardinality(PrimaryVersions) = 1

\* C12: the encoding persisted for a rendered page is the one with the
\* smaller byte length, and the lossless one (png) when the two candidates
\* have equal length.
C12_SmallerEncodingTieLossless ==
    [][\A r \in Runs :
         (runs[r].pc = "createPage" /\ runs'[r] # runs[r]) =>
            \A p \in pages' \ pages :
                p.file.format =
                    IF runs[r].render.png <= runs[r].render.jpeg
                    THEN "png" ELSE "jpeg"
      ]_vars

\* C13: every DocumentPage row records scale factor 2 when the page is
\* 1600 points wide or wider and 3 when it is narrower, its rendered size is
\* the page's size times that factor, and two pages of one width have one
\* factor whatever their heights.
C13_ScaleFactorByWidth ==
    /\ \A p \in pages :
          /\ p.metadata.originalWidth >= 1600 => p.metadata.scaleFactor = 2
          /\ p.metadata.originalWidth < 1600 => p.metadata.scaleFactor = 3
          /\ p.metadata.width = p.metadata.originalWidth * p.metadata.scaleFactor
          /\ p.metadata.height = p.metadata.originalHeight * p.metadata.scaleFactor
    /\ \A p \in pages, q \in pages :
          p.metadata.originalWidth = q.metadata.originalWidth =>
              p.metadata.scaleFactor = q.metadata.scaleFactor

\* C13 witness: a page exactly 1600 points wide and a page 1599 points wide
\* of another height have their rows
C13_Witness ==
    \E p \in pages, q \in pages :
        /\ p.metadata.originalWidth = 1600 /\ p.metadata.scaleFactor = 2
        /\ q.metadata.originalWidth = 1599 /\ q.metadata.scaleFactor = 3
        /\ p.metadata.originalHeight # q.metadata.originalHeight

\* C14: a video optimization whose source is 500 MiB (524288000 bytes) or
\* larger never re-encodes, and one whose source is smaller, once the
\* duration is persisted, goes on to re-encode.
C14_SkipAtThreshold ==
    \A o \in Videos :
        /\ vids[o].fileSize >= 524288000 =>
              /\ vids[o].pc \notin {"transcode", "upload", "finalize"}
              /\ ~vids[o].transcoded
        /\ (vids[o].fileSize < 524288000 /\ vids[o].pc = "done"
                /\ vids[o].result = "success") => vids[o].transcoded

\* C15: a video optimization whose source is over 500 MiB never re-encodes
\* and never uploads, leaves the Version's file reference as uploaded, can
\* throw only before the duration is persisted or when the removal of its
\* temp directory fails after it, and when it has returned, it returned
\* success with the probed duration stored on the Version.
C15_LargeVideoSkipped ==
    \A o \in Videos :
        vids[o].fileSize > 524288000 =>
            LET ver == versions[vids[o].documentVersionId]
            IN  /\ ~vids[o].transcoded
                /\ ~vids[o].uploaded
                /\ vids[o].pc \notin {"transcode", "upload", "finalize"}
                /\ ver.exists => ver.file = "upload"
                /\ vids[o].result = "thrown" =>
                      /\ vids[o].error \notin {"ffmpeg", "upload"}
                      /\ vids[o].error # "cleanup" => ver.length = 0
                      /\ vids[o].error = "cleanup" => ver.length = vids[o].duration
                /\ (vids[o].pc = "done" /\ vids[o].result # "thrown") =>
                      /\ vids[o].result = "success"
                      /\ ver.length = vids[o].duration

\* C15 witness: a 700 MiB video was probed at 42 seconds and the optimizer
\* has returned
C15_Witness ==
    \E o \in Videos :
        /\ vids[o].fileSize = 734003200
        /\ vids[o].pc = "done"
        /\ vids[o].result = "success"
        /\ vids[o].duration = 42
        /\ versions[vids[o].documentVersionId].length = 42

\* the DocumentPage rows of version v
RowsOf(ps, v) == { p \in ps : p.versionId = v }

\* C16: when a rasterization run over an N-page PDF has ended with no page
\* failed, the version has exactly N DocumentPage rows, one for each page
\* number 1..N, numPages = N, hasPages and isPrimary are true, and isVertical
\* is (height > width) of page 1's bounds.
C16_SuccessfulRunResult ==
    \A r \in Runs :
        (/\ runs[r].pc = "done"
         /\ runs[r].conversionWithoutError
         /\ runs[r].currentPage >= 1) =>
            LET v == runs[r].documentVersionId
                N == versions[v].pdfPages
            IN  /\ Cardinality(RowsOf(pages, v)) = N
                /\ \A n \in 1..N : Cardinality(RowsAt(pages, v, n)) = 1
                /\ versions[v].numPages = N
                /\ versions[v].hasPages
                /\ versions[v].isPrimary
                /\ \A p \in RowsAt(pages, v, 1) :
                      versions[v].isVertical =
                          (p.metadata.originalHeight > p.metadata.originalWidth)

\* C16 witness: a run over a PDF of MaxPages pages with a portrait first
\* page has returned success
C16_Witness ==
    \E r \in Runs :
        /\ runs[r].result = "success"
        /\ versions[runs[r].documentVersionId].pdfPages = MaxPages
        /\ Cardinality(RowsOf(pages, runs[r].documentVersionId)) = MaxPages
        /\ versions[runs[r].documentVersionId].isVertical

\* the processing path the dispatch mapping gives a declared type
MappedPaths(type) ==
    CASE type \in {"docs", "slides"} -> {"office"}
      [] type = "cad" -> {"cad"}
      [] type = "video" -> {"video"}
      [] type = "pdf" -> {"rasterizer"}
      [] OTHER -> {}

\* C17: when the handler has answered, the tasks it started for the new
\* Version are exactly the one path mapped to the declared type (docs and
\* slides: Office Converter, cad: CAD Converter, video: Video Optimizer,
\* pdf: Rasterizer), none for any other type, and never two.
C17_OnePathByType ==
    \A h \in Requests :
        reqs[h].pc = "done" =>
            /\ reqs[h].started = MappedPaths(reqs[h].type)
            /\ Cardinality(reqs[h].started) <= 1

\* a background task working on version id has failed: thrown, or returned
\* without a result
TaskFailed(id) ==
    \/ \E r \in Runs :
          /\ runs[r].pc = "done" /\ runs[r].documentVersionId = id
          /\ runs[r].result \in {"thrown", "undefined"}
    \/ \E c \in Converters :
          /\ convs[c].pc = "done" /\ convs[c].documentVersionId = id
          /\ convs[c].result \in {"thrown", "undefined"}
    \/ \E o \in Videos :
          /\ vids[o].pc = "done" /\ vids[o].documentVersionId = id
          /\ vids[o].result = "thrown"

\* C18: the response of a version-creation request is the success response
\* whatever its background task does afterwards, and when the task has
\* failed the created Version still exists, with hasPages = false.
C18_TaskFailureStaysInTask ==
    \A h \in Requests :
        reqs[h].pc = "done" =>
            /\ reqs[h].status = 200
            /\ versions[reqs[h].versionId].exists
            /\ TaskFailed(reqs[h].versionId) =>
                  ~versions[reqs[h].versionId].hasPages

\* C19: a stage that ended because the version it was invoked for is
\* missing, or because the source file could not be downloaded, returned
\* without a result and without throwing, has started no further stage and
\* has left the version's row and pages as they were.
C19_NotFoundReturnsQuietly ==
    /\ \A r \in Runs :
          (runs[r].pc = "done" /\ ~versions[runs[r].documentVersionId].exists) =>
              /\ runs[r].result = "undefined"
              /\ RowsOf(pages, runs[r].documentVersionId) = {}
    /\ \A c \in Converters :
          LET v == convs[c].documentVersionId
          IN  (/\ convs[c].pc = "done"
               /\ ~versions[v].exists \/ convs[c].error = "download") =>
                  /\ convs[c].result = "undefined"
                  /\ convs[c].child = 0
                  /\ RowsOf(pages, v) = {}
                  /\ versions[v].exists =>
                        versions[v].file = "upload" /\ versions[v].type # "pdf"

NonDecreasing(sq) == \A i \in 1..(Len(sq) - 1) : sq[i] <= sq[i + 1]

\* C20: the progress percentages one run of a stage has reported (rasterizer,
\* Office or CAD converter, video optimizer) never decrease, whether the run
\* succeeds or fails.
C20_ProgressMonotonic ==
    /\ \A r \in Runs : NonDecreasing(runs[r].progress)
    /\ \A c \in Converters : NonDecreasing(convs[c].progress)
    /\ \A o \in Videos : NonDecreasing(vids[o].progress)

\* a video optimization that has created its temp directory and not ended
HoldsTempDir(o) ==
    /\ vids[o].pc \notin {"idle", "fetch", "done"}
    /\ vids[o].tempDirectory[2] # 0

\* C21: two video optimizations in flight for different versions never hold
\* the same temp directory, and the input file an optimization probes is the
\* one it downloaded itself, whatever the times at which the two started.
C21_TempDirsNotShared ==
    /\ \A o \in Videos, q \in Videos :
          (/\ o # q
           /\ vids[o].documentVersionId # vids[q].documentVersionId
           /\ HoldsTempDir(o) /\ HoldsTempDir(q)) =>
              vids[o].tempDirectory # vids[q].tempDirectory
    /\ \A o \in Videos : vids[o].probedInput \in {0, o}

\* C22: a rasterization run that has written the Version's flags and issued
\* the cache-invalidation call ends with its success result, whether the
\* call succeeded or failed.
C22_RevalidationBestEffort ==
    \A r \in Runs :
        (/\ runs[r].pc = "done"
         /\ \E i \in 1..Len(runs[r].progress) : runs[r].progress[i] = 95) =>
            runs[r].result = "success"

\* C23: at the step in which a video optimization or a local Office
\* conversion returns its success result (the skipped large video included),
\* the temp directory the run created does not exist any more.
C23_TempDirRemovedOnSuccess ==
    [][ /\ \A o \in Videos :
             (vids[o].result # "success" /\ vids'[o].result = "success") =>
                 ~tmpfs'[vids'[o].tempDirectory].exists
        /\ \A c \in Converters :
             (/\ convs[c].result # "success" /\ convs'[c].result = "success"
              /\ convs'[c].kind = "officeLocal") =>
                 ~tmpfs'[convs'[c].tempDir].exists ]_vars

\* C24: a task given to scheduleTask runs with the payload it was scheduled
\* with and not before delayMs has elapsed; the returned promise is resolved
\* only after the task has finished and is never rejected, also when the
\* task throws; and a scheduled task is eventually run.
C24_ScheduledTaskRuns ==
    /\ [](\A t \in Timers :
            /\ sched[t].executions >= 1 =>
                  /\ sched[t].firedAt >= sched[t].delay
                  /\ sched[t].received = sched[t].payload
            /\ sched[t].promise = "resolved" => sched[t].pc = "done"
            /\ sched[t].promise # "rejected")
    /\ \A t \in Timers :
          (sched[t].pc = "waiting") ~> (sched[t].executions >= 1)

\* C25: once an observer has been registered through setProgressCallback,
\* every update a rasterization run emits is delivered to it, in order, and
\* every percentage is in 0..100.
C25_ObserverReceivesUpdates ==
    [][ \A r \in Runs :
          (callbackProperty /\ Len(runs'[r].progress) > Len(runs[r].progress)) =>
              /\ Len(runs'[r].delivered) - Len(runs[r].delivered)
                    = Len(runs'[r].progress) - Len(runs[r].progress)
              /\ \A i \in 1..Len(runs'[r].delivered) :
                    /\ runs'[r].delivered[i] \in 0..100
                    /\ runs'[r].delivered[Len(runs'[r].delivered) + 1 - i]
                          = runs'[r].progress[Len(runs'[r].progress) + 1 - i] ]_vars

\* C26: when the rasterization chained from a converter has succeeded and
\* the converter has returned, every other Version of the Document has
\* isPrimary = false.
C26_ChainedRunDemotesOthers ==
    \A c \in Converters :
        (/\ convs[c].pc = "done"
         /\ convs[c].child # 0
         /\ runs[convs[c].child].result = "success") =>
            \A w \in ExistingVersions \ {convs[c].documentVersionId} :
                ~versions[w].isPrimary

\* C27: a DocumentPage row, once in the store, is in the store unchanged
\* after every step of every run: no failed run, re-run or concurrent run
\* modifies or deletes it.
C27_PagesAppendOnly ==
    [][\A p \in pages : p \in pages']_vars

\* C27 witness: a run has ended on a failed page while the version has a
\* row, and another run of the same version has ended too
C27_Witness ==
    \E r \in Runs, q \in Runs :
        /\ r # q
        /\ runs[r].pc = "done" /\ ~runs[r].conversionWithoutError
        /\ runs[q].pc = "done"
        /\ runs[q].documentVersionId = runs[r].documentVersionId
        /\ RowsOf(pages, runs[r].documentVersionId) # {}

\* C28: a step changes a Version's file reference, declared type or storage
\* tag only when it is the step of a converter of that Version whose put has
\* succeeded, and then to the converted file, pdf and the tag of the put; a
\* converter that has ended without a successful put has left the three as
\* uploaded.
C28_UpdateOnlyAfterPut ==
    [][\A v \in VersionIds :
         LET a == versions[v]
             b == versions'[v]
         IN  (a.exists /\ <<a.file, a.type, a.storageType>>
                            # <<b.file, b.type, b.storageType>>) =>
                 /\ b.file = "converted" /\ b.type = "pdf"
                 /\ b.storageType = "S3_PATH"
                 /\ \E c \in Converters :
                      /\ convs[c].pc = "save"
                      /\ convs[c].documentVersionId = v
                      /\ convs'[c].pc = "rasterize" ]_vars

\* C28 witness: the put of a converted docs version has failed after a
\* successful conversion, and the version is as uploaded
C28_Witness ==
    \E c \in Converters :
        LET ver == versions[convs[c].documentVersionId]
        IN  /\ convs[c].pc = "done"
            /\ convs[c].response = "ok"
            /\ convs[c].child = 0
            /\ convs[c].error \in {"put", "Failed to save converted file"}
            /\ ver.exists /\ ver.file = "upload" /\ ver.type = "docs"
            /\ ver.storageType = "VERCEL_BLOB"

\* C29: every backoff delay a remote converter has waited was followed by
\* another submission: a converter that has left its retry loop has waited
\* fewer delays than it made submissions, and none after its third failed
\* attempt, for 5xx responses and network errors alike.
C29_DelayOnlyBeforeRetry ==
    \A c \in Converters :
        (/\ convs[c].kind \in RemoteKinds
         /\ convs[c].pc # "submit"
         /\ convs[c].submissions >= 1) =>
            /\ Len(convs[c].delays) < convs[c].submissions
            /\ convs[c].submissions = maxRetries => Len(convs[c].delays) = maxRetries - 1

\* C30: a rasterization run in which the rendering of a page has failed
\* ends by throwing.
C30_PageErrorThrown ==
    \A r \in Runs :
        (runs[r].pc = "done" /\ ~runs[r].conversionWithoutError) =>
            runs[r].result = "thrown"

\* C31: a rasterization run probes the PDF's page count only when the
\* Version's stored page count is unknown (0), and when the probe yields
\* fewer than 1 page the run ends in that step without a success result,
\* with the page rows and the Version rows as they were.
C31_ProbeOnlyWhenUnknown ==
    [][ \A r \in Runs :
          (~runs[r].probed /\ runs'[r].probed) =>
              LET ver == versions[runs[r].documentVersionId]
              IN  /\ ver.numPages = 0
                  /\ (IsPdf(ver) /\ ver.pdfPages < 1) =>
                        /\ runs'[r].pc = "done"
                        /\ runs'[r].result # "success"
                        /\ pages' = pages
                        /\ versions' = versions ]_vars

\* C32: a step of a rasterization run that processes a page writes nothing
\* to the Version rows except, while it processes page 1, the orientation
\* flag of the run's Version, whose value is (height > width) of page 1's
\* bounds; the flag is written also when the render after it fails.
C32_OrientationFromPageOne ==
    [][ \A r \in Runs :
          (runs[r].pc \in {"page", "findPage", "createPage"}
              /\ runs'[r] # runs[r]) =>
              LET v == runs[r].documentVersionId
              IN  IF runs[r].pc = "page" /\ runs[r].currentPage = 0
                  THEN /\ versions' =
                            [versions EXCEPT ![v].isVertical = versions'[v].isVertical]
                       /\ runs'[r].pc = "findPage" =>
                            versions'[v].isVertical =
                                (runs'[r].render.h > runs'[r].render.w)
                  ELSE versions' = versions ]_vars

\* C32 witness: page 1 is square and page 2 is a portrait page; both rows are
\* stored and the Version is not vertical
C32_Witness ==
    \E p \in pages, q \in pages :
        /\ p.versionId = q.versionId
        /\ p.pageNumber = 1 /\ q.pageNumber = 2
        /\ p.metadata.originalHeight = p.metadata.originalWidth
        /\ q.metadata.originalHeight > q.metadata.originalWidth
        /\ ~versions[p.versionId].isVertical

\* C33: no two Versions of the Document have the same version number, also
\* when two creation requests are handled concurrently, and a created
\* Version's number is greater than the number of every Version that
\* existed before it.
C33_VersionNumbersUnique ==
    \A v \in ExistingVersions, w \in ExistingVersions :
        v < w => versions[v].versionNumber < versions[w].versionNumber

C35_OneOfTwoRunsSucceeds ==
    \A r \in Runs, q \in Runs :
        (/\ r # q
         /\ runs[r].pc = "done" /\ runs[q].pc = "done"
         /\ runs[r].documentVersionId = runs[q].documentVersionId) =>
            LET v == runs[r].documentVersionId
            IN  /\ runs[r].result = "success" \/ runs[q].result = "success"
                /\ versions[v].hasPages
                /\ \A n \in 1..versions[v].pdfPages : RowsAt(pages, v, n) # {}

\* C35 witness: of two runs over a PDF of MaxPages pages one has lost a
\* create race and ended, the other has returned success
C35_Witness ==
    \E r \in Runs, q \in Runs :
        /\ runs[r].documentVersionId = runs[q].documentVersionId
        /\ versions[runs[r].documentVersionId].pdfPages = MaxPages
        /\ runs[r].pc = "done" /\ ~runs[r].conversionWithoutError
        /\ runs[q].pc = "done" /\ runs[q].result = "success"

\* the failed submissions that use up the attempt budget
CountTransient(outs) ==
    Cardinality({ i \in 1..Len(outs) : outs[i] \in {"5xx", "network"} })

\* C36: whatever the outcomes of its submissions, a remote converter makes
\* at most 3 of them, every 5xx response and every network error uses up
\* one attempt of the same budget, and the converter is saving or has saved
\* a result only if its last submission was answered with success.
C36_RetryLoopBounded ==
    \A c \in Converters :
        convs[c].kind \in RemoteKinds =>
            LET outs == convs[c].outcomes
            IN  /\ convs[c].submissions = Len(outs)
                /\ Len(outs) <= maxRetries
                /\ convs[c].retryCount = CountTransient(outs)
                /\ convs[c].pc = "submit" => Len(outs) < maxRetries
                /\ (convs[c].pc \in {"save", "rasterize"} \/ convs[c].child # 0) =>
                      /\ Len(outs) >= 1
                      /\ outs[Len(outs)] = "ok"
                      /\ convs[c].response = "ok"

\* C36 witness: a network error, a 5xx response and a success, and the
\* converter has saved the result
C36_Witness ==
    \E c \in Converters :
        /\ convs[c].kind \in RemoteKinds
        /\ convs[c].outcomes = <<"network", "5xx", "ok">>
        /\ convs[c].child # 0

\* C37: for every DocumentPage record, the object stored at the record's file
\* reference holds the bytes rendered for that record's own version and
\* page; no later rasterization, of the same Version or of another Version
\* of the Document, replaces it with other content.
C37_StoredObjectMatchesRecord ==
    \A p \in pages :
      /\ p.file.page = p.pageNumber
      /\ storage[p.file] = p.versionId

\* the calls of limit that came back with success = true and carry a
\* timestamp of the window of `duration` seconds that starts at `from`
AllowedInWindow(lm, from) ==
    { j \in DOMAIN lm.calls :
        /\ lm.calls[j].success
        /\ lm.calls[j].at >= from
        /\ lm.calls[j].at < from + lm.duration * Second }

\* C38: as long as no Redis transaction of the limiter has failed, at most
\* `requests` of the calls of limit whose timestamps lie in one window of
\* `duration` seconds return success = true, calls of one and the same
\* millisecond included; a call whose transaction fails returns
\* success = true.
C38_AtMostRequestsPerWindow ==
    /\ \A j \in DOMAIN limiter.calls :
         limiter.calls[j].error => limiter.calls[j].success
    /\ (\A j \in DOMAIN limiter.calls : ~limiter.calls[j].error) =>
         \A from \in Stamps :
           Cardinality(AllowedInWindow(limiter, from)) <= limiter.requests

\* C39: deleteTeamFilesServer returns (it does not throw); when it returns
\* true, every object that was under the team's prefix at the call has been
\* deleted; when a storage call has failed it returns false.
C39_TrueOnlyWhenAllDeleted ==
    deletion.pc = "done" =>
      /\ deletion.result \in {"true", "false"}
      /\ deletion.result = "true" => deletion.atCall \subseteq deletion.deleted
      /\ deletion.failed => deletion.result = "false"
=============================================================================
